---- MODULE Spec2Model ----
(***************************************************************************)
(* Model of the chat gateway of messenger-backend: the SocketHandler class *)
(* (rooms directory `_rooms`, membership map `_chatUsers`) and the events  *)
(* it emits through socket.io.  One action per inbound event handler; an   *)
(* action is the whole handler, run to completion (Node's event loop runs  *)
(* one handler at a time).                                                 *)
(***************************************************************************)
EXTENDS Integers, Sequences, FiniteSets, TLC

\* ------------------------------------------------------------------ bounds
NumSessions == 2
MaxClock == 2
MaxToJson == 2

SessionIds == <<"sA", "sB", "sC", "sD", "sE">>

Sessions == {SessionIds[i] : i \in 1..NumSessions}
Rooms == {"general", "random"}
Names == {"ann", "bob"}
Texts == {"hi"}
\* What else a client may put into the new_message payload: nothing, or a
\* system flag and a sender of its own.
Extras == {[system |-> "absent", sender |-> "-"], [system |-> "true", sender |-> "eve"]}

NoSession == "-"
NoRoom == "-"
NoName == "-"
NoText == "-"
NoId == "-"
NoTime == 0 - 1
\* Values of Math.random().toString(36).substr(2, 15).
RandomIds == {"k3x9", "q7zd"}

VARIABLES
    status,      \* per socket: "new", "connected" or "disconnected"
    clientName,  \* socket.handshake.query.clientName of each socket
    rooms,       \* this._rooms: the set of created room names
    chatUsers,   \* this._chatUsers: Map in insertion order, room -> list of users
    joined,      \* socket.io adapter: the rooms each socket has joined
    fault,       \* TRUE once a handler threw (uncaught TypeError ends the process)
    out,         \* the events emitted by the last handled inbound event, in order
    lastOp,      \* the last handled inbound event and what held just before it
    now,         \* the clock read by new Date()
    object,      \* a constructed Message object (or none)
    jsons,       \* the results of the toJson() calls made on it so far
    sweeping,    \* the socket whose disconnectUser loop is running (or none)
    cursor,      \* the position of the loop's Map iterator
    visits       \* the entries the running (or last) loop has visited, in order

vars == <<status, clientName, rooms, chatUsers, joined, fault, out, lastOp, now,
          object, jsons, sweeping, cursor, visits>>

\* ------------------------------------------------------- JavaScript values
\* A value read from the Map: an array, or undefined (key not present).
Undefined == [defined |-> FALSE, users |-> <<>>]
Arr(list) == [defined |-> TRUE, users |-> list]

\* Map.prototype.has / get / set on a Map kept as its entries in insertion order.
MapHas(m, key) == \E i \in 1..Len(m) : m[i].key = key

\* Mutant: set() of a present key moves the entry to the end of the Map.
MapSetMovesToEnd(m, key, value) ==
    SelectSeq(m, LAMBDA entry : entry.key # key) \o <<[key |-> key, value |-> value]>>

MapGet(m, key) ==
    IF MapHas(m, key)
    THEN m[CHOOSE i \in 1..Len(m) : m[i].key = key].value
    ELSE Undefined
MapSet(m, key, value) ==
    IF MapHas(m, key)
    THEN [i \in 1..Len(m) |-> IF m[i].key = key THEN [key |-> key, value |-> value] ELSE m[i]]
    ELSE Append(m, [key |-> key, value |-> value])

\* Array.prototype.findIndex(entry => entry.userId === id): the 1-based index of
\* the first match, 0 where JavaScript answers -1.
FindIndex(list, id) ==
    IF \E i \in 1..Len(list) : list[i].userId = id
    THEN CHOOSE i \in 1..Len(list) :
            /\ list[i].userId = id
            /\ \A j \in 1..(i - 1) : list[j].userId # id
    ELSE 0

\* Array.prototype.splice(index, 1) at a 1-based index.
Splice(list, index) ==
    [i \in 1..(Len(list) - 1) |-> IF i < index THEN list[i] ELSE list[i + 1]]

\* ------------------------------------------------------------- transport
\* Recipients of socket.emit, socket.to(room).emit and io.to(room).emit.
SocketEmit(socket) == {socket}
SocketTo(jn, socket, roomName) == {t \in Sessions : roomName \in jn[t]} \ {socket}
IoTo(jn, roomName) == {t \in Sessions : roomName \in jn[t]}

\* One emitted event: its name, its recipients and its payload fields.
Event(ev, to, roomName, who, text, isSystem, users) ==
    [ev |-> ev, to |-> to, room |-> roomName, who |-> who, text |-> text,
     isSystem |-> isSystem, chatUsers |-> users, id |-> NoId, time |-> NoTime,
     sender |-> NoName]

\* new Message(text, roomName): the constructor assigns no id.
Message(text, roomName) ==
    [class |-> "Message", id |-> NoId, text |-> text, roomName |-> roomName,
     timestamp |-> now, isSystem |-> "true", sender |-> NoName]

\* new UserMessage(text, roomName, sender)
UserMessage(text, roomName, sender) ==
    [Message(text, roomName) EXCEPT
        !.class = "UserMessage", !.isSystem = "false", !.sender = sender]

\* Message.prototype.toJson: no messageId and no messageSender key.
MessageToJson(m) ==
    [messageId |-> NoId, messageTime |-> m.timestamp, messageRoomName |-> m.roomName,
     messageText |-> m.text, messageSender |-> NoName, messageIsSystem |-> m.isSystem]

\* The Message class of src/unnamed/part_000: the constructor draws an id.
IdMessage(text, roomName, id) ==
    [class |-> "IdMessage", id |-> id, text |-> text, roomName |-> roomName,
     timestamp |-> now, isSystem |-> "true", sender |-> NoName]

\* The UserMessage class of src/unnamed/part_000.
IdUserMessage(text, roomName, sender, id) ==
    [IdMessage(text, roomName, id) EXCEPT
        !.class = "IdUserMessage", !.isSystem = "false", !.sender = sender]

\* Message.prototype.toJson of src/unnamed/part_000: with the messageId key.
IdMessageToJson(m) ==
    [messageId |-> m.id, messageTime |-> m.timestamp, messageRoomName |-> m.roomName,
     messageText |-> m.text, messageSender |-> NoName, messageIsSystem |-> m.isSystem]

\* Mutant: toJson reads the clock again instead of the stored timestamp.
UserMessageToJsonFresh(m) ==
    [messageId |-> m.id, messageTime |-> now, messageRoomName |-> m.roomName,
     messageText |-> m.text, messageSender |-> m.sender, messageIsSystem |-> m.isSystem]

\* UserMessage.prototype.toJson (the same in both files)
UserMessageToJson(m) ==
    [messageId |-> m.id, messageTime |-> m.timestamp, messageRoomName |-> m.roomName,
     messageText |-> m.text, messageSender |-> m.sender, messageIsSystem |-> m.isSystem]

\* message.toJson(): dispatch on the class of the object.
ToJson(m) ==
    CASE m.class \in {"UserMessage", "IdUserMessage"} -> UserMessageToJson(m)
      [] m.class = "IdMessage" -> IdMessageToJson(m)
      [] OTHER -> MessageToJson(m)

\* No object constructed yet.
NoMessage ==
    [class |-> "none", id |-> NoId, text |-> NoText, roomName |-> NoRoom,
     timestamp |-> NoTime, isSystem |-> "absent", sender |-> NoName]

\* An emitted message envelope; `who` is the clientName spliced into the text
\* of a notice ("User ${clientName} has ...").
Envelope(ev, to, who, json) ==
    [Event(ev, to, json.messageRoomName, who, json.messageText, json.messageIsSystem,
           Undefined)
     EXCEPT !.id = json.messageId, !.time = json.messageTime,
            !.sender = json.messageSender]

\* Message(text, roomName).toJson() sent as `user_list_changed`.
SystemMessage(to, roomName, who, text) ==
    Envelope("user_list_changed", to, who, ToJson(Message(text, roomName)))

\* Mutant: the roster is read from the Map before the handler changed it.
StaleRoster(to, m, roomName) ==
    Event("room_users_list", to, roomName, NoName, NoText, "absent",
          MapGet(chatUsers, roomName))

\* The `room_users_list` payload {chatUsers: this._chatUsers.get(roomName), roomName}.
Roster(to, m, roomName) ==
    Event("room_users_list", to, roomName, NoName, NoText, "absent", MapGet(m, roomName))

\* The result of a handler: the state it leaves and the events it emitted.
Result(r, cu, jn, o, f) ==
    [rooms |-> r, chatUsers |-> cu, joined |-> jn, out |-> o, fault |-> f]

\* ---------------------------------------------------------------- handlers
\* Mutant: the membership test is missing.
userNeverInRoom(roomName, socket) == [ret |-> FALSE, out |-> <<>>]

\* Mutant: a member is recognised but not told so.
userAlreadyInRoomSilent(roomName, socket) ==
    LET currentUsers == MapGet(chatUsers, roomName)
    IN  [ret |-> currentUsers.defined /\ FindIndex(currentUsers.users, socket) # 0,
         out |-> <<>>]

\* userAlreadyInRoom(args, socket): the boolean it returns and what it emits.
userAlreadyInRoom(roomName, socket) ==
    LET currentUsers == MapGet(chatUsers, roomName)
    IN  IF currentUsers.defined /\ FindIndex(currentUsers.users, socket) # 0
        THEN [ret |-> TRUE,
              out |-> <<Event("already_joined", SocketEmit(socket), NoRoom, NoName,
                              "You have already joined this room", "absent", Undefined)>>]
        ELSE [ret |-> FALSE, out |-> <<>>]

\* Mutant: the new entry replaces the list instead of extending it.
addUserOverwrites(roomName, socket) ==
    MapSet(chatUsers, roomName,
           Arr(<<[userName |-> clientName[socket], userId |-> socket]>>))

\* Mutant: the new entry is put in front of the list.
addUserPrepends(roomName, socket) ==
    LET currentUsers == MapGet(chatUsers, roomName)
        user == [userName |-> clientName[socket], userId |-> socket]
    IN  IF currentUsers.defined
        THEN MapSet(chatUsers, roomName, Arr(<<user>> \o currentUsers.users))
        ELSE MapSet(chatUsers, roomName, Arr(<<user>>))

\* addUserToServerStorage(args, socket): the Map after the call.
addUserToServerStorage(roomName, socket) ==
    LET currentUsers == MapGet(chatUsers, roomName)
        user == [userName |-> clientName[socket], userId |-> socket]
    IN  IF currentUsers.defined
        THEN MapSet(chatUsers, roomName, Arr(currentUsers.users \o <<user>>))
        ELSE MapSet(chatUsers, roomName, Arr(<<user>>))

\* Mutant: splice(0, 1) in place of splice(userIndex, 1).
removeFirstEntry(roomName, socket) ==
    LET currentUsers == MapGet(chatUsers, roomName)
    IN  IF ~currentUsers.defined
        THEN [threw |-> TRUE, chatUsers |-> chatUsers]
        ELSE IF FindIndex(currentUsers.users, socket) # 0
        THEN [threw |-> FALSE,
              chatUsers |-> MapSet(chatUsers, roomName, Arr(Splice(currentUsers.users, 1)))]
        ELSE [threw |-> FALSE, chatUsers |-> chatUsers]

\* Mutant: the entry is looked up by userName, not by userId.
removeByName(roomName, socket) ==
    LET currentUsers == MapGet(chatUsers, roomName)
    IN  IF ~currentUsers.defined
        THEN [threw |-> TRUE, chatUsers |-> chatUsers]
        ELSE IF \E i \in 1..Len(currentUsers.users) :
                    currentUsers.users[i].userName = clientName[socket]
        THEN [threw |-> FALSE,
              chatUsers |-> MapSet(chatUsers, roomName,
                  Arr(Splice(currentUsers.users,
                      CHOOSE i \in 1..Len(currentUsers.users) :
                          /\ currentUsers.users[i].userName = clientName[socket]
                          /\ \A j \in 1..(i - 1) :
                                currentUsers.users[j].userName # clientName[socket])))]
        ELSE [threw |-> FALSE, chatUsers |-> chatUsers]

\* removeUserFromServerStorage(args, socket): the Map after the call, or threw
\* when currentUsers is undefined (TypeError on currentUsers.findIndex).
removeUserFromServerStorage(roomName, socket) ==
    LET currentUsers == MapGet(chatUsers, roomName)
    IN  IF ~currentUsers.defined
        THEN [threw |-> TRUE, chatUsers |-> chatUsers]
        ELSE LET userIndex == FindIndex(currentUsers.users, socket)
             IN  IF userIndex # 0
                 THEN [threw |-> FALSE,
                       chatUsers |-> MapSet(chatUsers, roomName,
                                            Arr(Splice(currentUsers.users, userIndex)))]
                 ELSE [threw |-> FALSE, chatUsers |-> chatUsers]

\* Mutant: the creator is announced to the room like a joining socket.
addRoomAnnounces(roomName, socket) ==
    IF roomName \in rooms
    THEN Result(rooms, chatUsers, joined,
                <<Event("room_already_exist", SocketEmit(socket), NoRoom, NoName,
                        "Room with this name already exist", "absent", Undefined)>>,
                FALSE)
    ELSE LET joined1 == [joined EXCEPT ![socket] = @ \cup {roomName}]
             chatUsers1 == addUserToServerStorage(roomName, socket)
         IN  Result(rooms \cup {roomName}, chatUsers1, joined1,
                    <<Event("room_created", SocketEmit(socket), roomName, NoName,
                            NoText, "absent", Undefined),
                      SystemMessage(IoTo(joined1, roomName), roomName,
                                    clientName[socket], "has joined chat room"),
                      Roster(SocketEmit(socket), chatUsers1, roomName)>>,
                    FALSE)

\* Mutant: the room is created without asking this._rooms.has first.
addRoomNoCheck(roomName, socket) ==
    LET chatUsers1 == addUserToServerStorage(roomName, socket)
    IN  Result(rooms \cup {roomName}, chatUsers1,
               [joined EXCEPT ![socket] = @ \cup {roomName}],
               <<Event("room_created", SocketEmit(socket), roomName, NoName,
                       NoText, "absent", Undefined),
                 Roster(SocketEmit(socket), chatUsers1, roomName)>>,
               FALSE)

\* Mutant: the room enters the directory but no list is stored for it.
addRoomSkipsStorage(roomName, socket) ==
    IF roomName \in rooms
    THEN Result(rooms, chatUsers, joined,
                <<Event("room_already_exist", SocketEmit(socket), NoRoom, NoName,
                        "Room with this name already exist", "absent", Undefined)>>,
                FALSE)
    ELSE LET rooms1 == rooms \cup {roomName}
             joined1 == [joined EXCEPT ![socket] = @ \cup {roomName}]
         IN  Result(rooms1, chatUsers, joined1,
                    <<Event("room_created", SocketEmit(socket), roomName, NoName,
                            NoText, "absent", Undefined),
                      Roster(SocketEmit(socket), chatUsers, roomName)>>,
                    FALSE)

\* addRoom(args, socket)
addRoom(roomName, socket) ==
    IF roomName \in rooms
    THEN Result(rooms, chatUsers, joined,
                <<Event("room_already_exist", SocketEmit(socket), NoRoom, NoName,
                        "Room with this name already exist", "absent", Undefined)>>,
                FALSE)
    ELSE LET rooms1 == rooms \cup {roomName}
             joined1 == [joined EXCEPT ![socket] = @ \cup {roomName}]
             chatUsers1 == addUserToServerStorage(roomName, socket)
         IN  Result(rooms1, chatUsers1, joined1,
                    <<Event("room_created", SocketEmit(socket), roomName, NoName,
                            NoText, "absent", Undefined),
                      Roster(SocketEmit(socket), chatUsers1, roomName)>>,
                    FALSE)

\* Mutant: the "has joined" notice goes out by io.to, the joining socket included.
joinRoomNoticeToAll(roomName, socket) ==
    LET already == userAlreadyInRoom(roomName, socket)
        joined1 == [joined EXCEPT ![socket] = @ \cup {roomName}]
        chatUsers1 == addUserToServerStorage(roomName, socket)
    IN  IF already.ret
        THEN Result(rooms, chatUsers, joined, already.out, FALSE)
        ELSE IF roomName \in rooms
        THEN Result(rooms, chatUsers1, joined1,
                    <<Event("room_joined", SocketEmit(socket), roomName, NoName,
                            NoText, "absent", Undefined),
                      SystemMessage(IoTo(joined1, roomName), roomName,
                                    clientName[socket], "has joined chat room"),
                      Roster(IoTo(joined1, roomName), chatUsers1, roomName)>>,
                    FALSE)
        ELSE Result(rooms, chatUsers, joined,
                    <<Event("room_not_exit", SocketEmit(socket), NoRoom, NoName,
                            "This room doesn't exist", "absent", Undefined)>>,
                    FALSE)

\* Mutant: the socket is joined without asking this._rooms.has first.
joinRoomNoExistenceCheck(roomName, socket) ==
    LET already == userAlreadyInRoom(roomName, socket)
        joined1 == [joined EXCEPT ![socket] = @ \cup {roomName}]
        chatUsers1 == addUserToServerStorage(roomName, socket)
    IN  IF already.ret
        THEN Result(rooms, chatUsers, joined, already.out, FALSE)
        ELSE Result(rooms, chatUsers1, joined1,
                    <<Event("room_joined", SocketEmit(socket), roomName, NoName,
                            NoText, "absent", Undefined),
                      SystemMessage(SocketTo(joined1, socket, roomName), roomName,
                                    clientName[socket], "has joined chat room"),
                      Roster(IoTo(joined1, roomName), chatUsers1, roomName)>>,
                    FALSE)

\* joinRoom(args, socket)
joinRoom(roomName, socket) ==
    LET already == userAlreadyInRoom(roomName, socket)
    IN  IF already.ret
        THEN Result(rooms, chatUsers, joined, already.out, FALSE)
        ELSE IF roomName \in rooms
        THEN LET joined1 == [joined EXCEPT ![socket] = @ \cup {roomName}]
                 chatUsers1 == addUserToServerStorage(roomName, socket)
             IN  Result(rooms, chatUsers1, joined1,
                        <<Event("room_joined", SocketEmit(socket), roomName, NoName,
                                NoText, "absent", Undefined),
                          SystemMessage(SocketTo(joined1, socket, roomName), roomName,
                                        clientName[socket], "has joined chat room"),
                          Roster(IoTo(joined1, roomName), chatUsers1, roomName)>>,
                        FALSE)
        ELSE Result(rooms, chatUsers, joined,
                    <<Event("room_not_exit", SocketEmit(socket), NoRoom, NoName,
                            "This room doesn't exist", "absent", Undefined)>>,
                    FALSE)

\* Mutant: a room left by its last member is deleted from this._rooms.
leaveRoomDeletesEmptyRoom(roomName, socket) ==
    LET joined1 == [joined EXCEPT ![socket] = @ \ {roomName}]
        removed == removeUserFromServerStorage(roomName, socket)
        rooms1 == IF MapGet(removed.chatUsers, roomName).users = <<>>
                  THEN rooms \ {roomName} ELSE rooms
    IN  IF removed.threw
        THEN Result(rooms, chatUsers, joined1, <<>>, TRUE)
        ELSE Result(rooms1, removed.chatUsers, joined1,
                    <<SystemMessage(SocketTo(joined1, socket, roomName), roomName,
                                    clientName[socket], "has left chat"),
                      Roster(IoTo(joined1, roomName), removed.chatUsers, roomName)>>,
                    FALSE)

\* Mutant: socket.leave is missing.
leaveRoomKeepsTransport(roomName, socket) ==
    LET removed == removeUserFromServerStorage(roomName, socket)
    IN  IF removed.threw
        THEN Result(rooms, chatUsers, joined, <<>>, TRUE)
        ELSE Result(rooms, removed.chatUsers, joined,
                    <<SystemMessage(SocketTo(joined, socket, roomName), roomName,
                                    clientName[socket], "has left chat"),
                      Roster(IoTo(joined, roomName), removed.chatUsers, roomName)>>,
                    FALSE)

\* Mutant: socket.leave is called after the two emits.
leaveRoomLeavesLast(roomName, socket) ==
    LET joined1 == [joined EXCEPT ![socket] = @ \ {roomName}]
        removed == removeUserFromServerStorage(roomName, socket)
    IN  IF removed.threw
        THEN Result(rooms, chatUsers, joined, <<>>, TRUE)
        ELSE Result(rooms, removed.chatUsers, joined1,
                    <<SystemMessage(SocketTo(joined, socket, roomName), roomName,
                                    clientName[socket], "has left chat"),
                      Roster(IoTo(joined, roomName), removed.chatUsers, roomName)>>,
                    FALSE)

\* leaveRoom(args, socket): socket.leave comes first, so it has happened when
\* removeUserFromServerStorage throws.
leaveRoom(roomName, socket) ==
    LET joined1 == [joined EXCEPT ![socket] = @ \ {roomName}]
        removed == removeUserFromServerStorage(roomName, socket)
    IN  IF removed.threw
        THEN Result(rooms, chatUsers, joined1, <<>>, TRUE)
        ELSE Result(rooms, removed.chatUsers, joined1,
                    <<SystemMessage(SocketTo(joined1, socket, roomName), roomName,
                                    clientName[socket], "has left chat"),
                      Roster(IoTo(joined1, roomName), removed.chatUsers, roomName)>>,
                    FALSE)

\* socket.io leaves every room of a closing socket before it fires 'disconnect'.
LeaveAll(socket) == [joined EXCEPT ![socket] = {}]

\* Mutant: the one-entry case keeps the list as it is.
disconnectRoomKeepsSingle(m, i, socket, jn) ==
    LET roomName == m[i].key
        list == m[i].value.users
        userIndex == FindIndex(list, socket)
        list1 == IF Len(list) = 1 THEN list ELSE Splice(list, userIndex)
        m1 == IF userIndex # 0 THEN MapSet(m, roomName, Arr(list1)) ELSE m
    IN  [chatUsers |-> m1,
         out |-> <<SystemMessage(IoTo(jn, roomName), roomName, clientName[socket],
                                 "has disconnected"),
                   Roster(IoTo(jn, roomName), m1, roomName)>>]

\* The body of the for-of loop of disconnectUser for the i-th entry of the Map:
\* the Map and the emitted events after it.
disconnectRoom(m, i, socket, jn) ==
    LET roomName == m[i].key
        list == m[i].value.users
        userIndex == FindIndex(list, socket)
        list1 == IF Len(list) = 1 THEN <<>> ELSE Splice(list, userIndex)
        m1 == IF userIndex # 0 THEN MapSet(m, roomName, Arr(list1)) ELSE m
    IN  [chatUsers |-> m1,
         out |-> <<SystemMessage(IoTo(jn, roomName), roomName, clientName[socket],
                                 "has disconnected"),
                   Roster(IoTo(jn, roomName), m1, roomName)>>]

\* The for-of loop over this._chatUsers.entries(), from the i-th entry on; an
\* entry whose value is undefined returns from the handler.
RECURSIVE disconnectLoop(_, _, _, _, _)
disconnectLoop(m, i, acc, socket, jn) ==
    IF i > Len(m) THEN [chatUsers |-> m, out |-> acc]
    ELSE IF ~m[i].value.defined THEN [chatUsers |-> m, out |-> acc]
    ELSE LET step == disconnectRoom(m, i, socket, jn)
         IN  disconnectLoop(step.chatUsers, i + 1, acc \o step.out, socket, jn)

\* Mutant: the loop returns after the first entry of the Map.
disconnectUserFirstOnly(socket) ==
    LET swept == IF Len(chatUsers) = 0
                 THEN [chatUsers |-> chatUsers, out |-> <<>>]
                 ELSE disconnectRoom(chatUsers, 1, socket, LeaveAll(socket))
    IN  Result(rooms, swept.chatUsers, LeaveAll(socket), swept.out, FALSE)

\* disconnectUser(socket)
disconnectUser(socket) ==
    LET swept == disconnectLoop(chatUsers, 1, <<>>, socket, LeaveAll(socket))
    IN  Result(rooms, swept.chatUsers, LeaveAll(socket), swept.out, FALSE)

\* Mutant: a sender that is not in the room's list is refused.
newMessageMembersOnly(args, socket) ==
    LET message == UserMessage(args.messageText, args.messageRoomName, clientName[socket])
        currentUsers == MapGet(chatUsers, args.messageRoomName)
    IN  IF currentUsers.defined /\ FindIndex(currentUsers.users, socket) # 0
        THEN Result(rooms, chatUsers, joined,
                    <<Envelope("new_message_in_room", IoTo(joined, args.messageRoomName),
                               NoName, ToJson(message))>>,
                    FALSE)
        ELSE Result(rooms, chatUsers, joined,
                    <<Event("room_not_exit", SocketEmit(socket), NoRoom, NoName,
                            "This room doesn't exist", "absent", Undefined)>>,
                    FALSE)

\* Mutant: the envelope takes the system flag and the sender from the payload.
newMessageTrustsClient(args, socket) ==
    LET message == UserMessage(args.messageText, args.messageRoomName, clientName[socket])
        json == [ToJson(message) EXCEPT
                    !.messageIsSystem = IF args.system = "absent" THEN @ ELSE args.system,
                    !.messageSender = IF args.sender = NoName THEN @ ELSE args.sender]
    IN  Result(rooms, chatUsers, joined,
               <<Envelope("new_message_in_room", IoTo(joined, args.messageRoomName),
                          NoName, json)>>,
               FALSE)

\* newMessage(args, socket): UserMessage(text, room, clientName).toJson() to the room.
newMessage(args, socket) ==
    LET message == UserMessage(args.messageText, args.messageRoomName, clientName[socket])
    IN  Result(rooms, chatUsers, joined,
               <<Envelope("new_message_in_room", IoTo(joined, args.messageRoomName),
                          NoName, ToJson(message))>>,
               FALSE)

\* ----------------------------------------------------------------- actions
\* The ids of the users stored for a room (empty when nothing is stored).
MemberIds(m, roomName) ==
    LET list == MapGet(m, roomName).users
    IN  {list[i].userId : i \in 1..Len(list)}

\* What is recorded of an inbound event: the event, and the state it met.
Op(op, socket, roomName) ==
    [op |-> op, socket |-> socket, room |-> roomName,
     existed |-> roomName \in rooms,
     stored |-> MapHas(chatUsers, roomName),
     wasIn |-> {r \in Rooms : socket \in MemberIds(chatUsers, r)},
     afterJoinOf |->
        IF /\ op = "join_room"
           /\ lastOp.op = "join_room"
           /\ lastOp.room = roomName
           /\ lastOp.socket # socket
           /\ lastOp.existed
           /\ roomName \notin lastOp.wasIn
        THEN lastOp.socket ELSE NoSession,
     text |-> NoText, system |-> "absent", sender |-> NoName]

\* The record of a new_message event keeps the payload.
OpMessage(socket, args) ==
    [Op("new_message", socket, args.messageRoomName) EXCEPT
        !.text = args.messageText, !.system = args.system, !.sender = args.sender]

\* A handler ran: the state becomes its result.
Handle(op, res) ==
    /\ rooms' = res.rooms
    /\ chatUsers' = res.chatUsers
    /\ joined' = res.joined
    /\ out' = res.out
    /\ fault' = res.fault
    /\ lastOp' = op
    /\ UNCHANGED <<now, object, jsons, sweeping, cursor, visits>>

Init ==
    /\ status = [s \in Sessions |-> "new"]
    /\ clientName = [s \in Sessions |-> NoName]
    /\ rooms = {}
    /\ chatUsers = <<>>
    /\ joined = [s \in Sessions |-> {}]
    /\ fault = FALSE
    /\ out = <<>>
    /\ lastOp = [op |-> "init", socket |-> NoSession, room |-> NoRoom,
                 existed |-> FALSE, stored |-> FALSE, wasIn |-> {},
                 afterJoinOf |-> NoSession,
                 text |-> NoText, system |-> "absent", sender |-> NoName]
    /\ now = 0
    /\ object = NoMessage
    /\ jsons = <<>>
    /\ sweeping = NoSession
    /\ cursor = 0
    /\ visits = <<>>

\* io.on('connect'): a new socket with its clientName; 'connected' goes to it.
\* The transport assigns the ids: the k-th socket to connect is SessionIds[k].
Connect(socket, name) ==
    /\ ~fault
    /\ status[socket] = "new"
    /\ \A k \in 1..NumSessions :
            SessionIds[k] = socket => \A j \in 1..(k - 1) : status[SessionIds[j]] # "new"
    /\ status' = [status EXCEPT ![socket] = "connected"]
    /\ clientName' = [clientName EXCEPT ![socket] = name]
    /\ Handle(Op("connect", socket, NoRoom),
              Result(rooms, chatUsers, joined,
                     <<Event("connected", SocketEmit(socket), NoRoom, NoName,
                             "You have connected to server", "absent", Undefined)>>,
                     FALSE))

AddRoom(socket, roomName) ==
    /\ ~fault
    /\ status[socket] = "connected"
    /\ Handle(Op("add_room", socket, roomName), addRoom(roomName, socket))
    /\ UNCHANGED <<status, clientName>>

JoinRoom(socket, roomName) ==
    /\ ~fault
    /\ status[socket] = "connected"
    /\ Handle(Op("join_room", socket, roomName), joinRoom(roomName, socket))
    /\ UNCHANGED <<status, clientName>>

LeaveRoom(socket, roomName) ==
    /\ ~fault
    /\ status[socket] = "connected"
    /\ Handle(Op("leave_room", socket, roomName), leaveRoom(roomName, socket))
    /\ UNCHANGED <<status, clientName>>

NewMessage(socket, args) ==
    /\ ~fault
    /\ status[socket] = "connected"
    /\ Handle(OpMessage(socket, args), newMessage(args, socket))
    /\ UNCHANGED <<status, clientName>>

DisconnectUser(socket) ==
    /\ ~fault
    /\ status[socket] = "connected"
    /\ status' = [status EXCEPT ![socket] = "disconnected"]
    /\ clientName' = [clientName EXCEPT ![socket] = NoName]
    /\ Handle(Op("disconnect", socket, NoRoom), disconnectUser(socket))

Next ==
    \/ \E socket \in Sessions, name \in Names : Connect(socket, name)
    \/ \E socket \in Sessions, roomName \in Rooms : AddRoom(socket, roomName)
    \/ \E socket \in Sessions, roomName \in Rooms : JoinRoom(socket, roomName)
    \/ \E socket \in Sessions, roomName \in Rooms : LeaveRoom(socket, roomName)
    \/ \E socket \in Sessions, roomName \in Rooms, text \in Texts, extra \in Extras :
            NewMessage(socket, [messageText |-> text, messageRoomName |-> roomName,
                                system |-> extra.system, sender |-> extra.sender])
    \/ \E socket \in Sessions : DisconnectUser(socket)

Spec == Init /\ [][Next]_vars

\* ------------------------------------------------- the message classes alone
\* A second specification: one Message object is constructed, the clock moves
\* on, and toJson() is called on the object again and again.
server == <<status, clientName, rooms, chatUsers, joined, fault, out, lastOp,
            sweeping, cursor, visits>>

Tick ==
    /\ now < MaxClock
    /\ now' = now + 1
    /\ UNCHANGED <<server, object, jsons>>

\* new Message(text, roomName) of src/Message.js
Construct(text, roomName) ==
    /\ object' = Message(text, roomName)
    /\ jsons' = <<>>
    /\ UNCHANGED <<server, now>>

\* new UserMessage(text, roomName, sender) of src/Message.js
ConstructUser(text, roomName, sender) ==
    /\ object' = UserMessage(text, roomName, sender)
    /\ jsons' = <<>>
    /\ UNCHANGED <<server, now>>

\* new Message(text, roomName) of src/unnamed/part_000
ConstructId(text, roomName, id) ==
    /\ object' = IdMessage(text, roomName, id)
    /\ jsons' = <<>>
    /\ UNCHANGED <<server, now>>

\* new UserMessage(text, roomName, sender) of src/unnamed/part_000
ConstructIdUser(text, roomName, sender, id) ==
    /\ object' = IdUserMessage(text, roomName, sender, id)
    /\ jsons' = <<>>
    /\ UNCHANGED <<server, now>>

\* message.toJson(): the object is only read.
Serialize ==
    /\ object # NoMessage
    /\ Len(jsons) < MaxToJson
    /\ jsons' = Append(jsons, ToJson(object))
    /\ UNCHANGED <<server, now, object>>

MessageNext ==
    \/ Tick
    \/ \E text \in Texts, roomName \in Rooms : Construct(text, roomName)
    \/ \E text \in Texts, roomName \in Rooms, sender \in Names :
            ConstructUser(text, roomName, sender)
    \/ \E text \in Texts, roomName \in Rooms, id \in RandomIds :
            ConstructId(text, roomName, id)
    \/ \E text \in Texts, roomName \in Rooms, sender \in Names, id \in RandomIds :
            ConstructIdUser(text, roomName, sender, id)
    \/ Serialize

MessageSpec == Init /\ [][MessageNext]_vars

\* ------------------------------------------------ the disconnect loop alone
\* A third specification: the for-of loop of disconnectUser, one entry of the
\* Map per step, started in any state of the storage the server can be in.
\* The sequences without repetition over a set.
InjectiveSeqs(S) ==
    UNION {{q \in [1..n -> S] : \A i, j \in 1..n : q[i] = q[j] => i = j} :
           n \in 0..Cardinality(S)}

\* Every room of the directory has a stored list, in any insertion order; a
\* list holds a session at most once, under the name it connected with, and
\* the session has joined the transport room.
SweepInit ==
    /\ status = [s \in Sessions |-> "connected"]
    /\ clientName \in [Sessions -> Names]
    /\ \E keys \in InjectiveSeqs(Rooms), ids \in [Rooms -> InjectiveSeqs(Sessions)] :
        /\ chatUsers =
              [i \in 1..Len(keys) |->
                 [key |-> keys[i],
                  value |-> Arr([k \in 1..Len(ids[keys[i]]) |->
                                   [userName |-> clientName[ids[keys[i]][k]],
                                    userId |-> ids[keys[i]][k]]])]]
        /\ rooms = {keys[i] : i \in 1..Len(keys)}
        /\ joined = [s \in Sessions |->
                        {keys[i] : i \in {j \in 1..Len(keys) :
                            \E k \in 1..Len(ids[keys[j]]) : ids[keys[j]][k] = s}}]
    /\ fault = FALSE
    /\ out = <<>>
    /\ lastOp = [op |-> "init", socket |-> NoSession, room |-> NoRoom,
                 existed |-> FALSE, stored |-> FALSE, wasIn |-> {},
                 afterJoinOf |-> NoSession,
                 text |-> NoText, system |-> "absent", sender |-> NoName]
    /\ now = 0
    /\ object = NoMessage
    /\ jsons = <<>>
    /\ sweeping = NoSession
    /\ cursor = 0
    /\ visits = <<>>

\* 'disconnect' fires for a socket that has left its transport rooms; the
\* iterator stands before the first entry.
SweepStart(socket) ==
    /\ sweeping = NoSession
    /\ status[socket] = "connected"
    /\ status' = [status EXCEPT ![socket] = "disconnected"]
    /\ joined' = LeaveAll(socket)
    /\ lastOp' = Op("disconnect", socket, NoRoom)
    /\ out' = <<>>
    /\ sweeping' = socket
    /\ cursor' = 1
    /\ visits' = <<>>
    /\ UNCHANGED <<clientName, rooms, chatUsers, fault, now, object, jsons>>

\* One turn of the loop: the entry under the iterator is processed.
SweepVisit ==
    /\ sweeping # NoSession
    /\ cursor <= Len(chatUsers)
    /\ chatUsers[cursor].value.defined
    /\ LET step == disconnectRoom(chatUsers, cursor, sweeping, joined)
       IN  /\ chatUsers' = step.chatUsers
           /\ out' = out \o step.out
    /\ visits' = Append(visits,
                        [room |-> chatUsers[cursor].key,
                         length |-> Len(chatUsers[cursor].value.users),
                         userIndex |-> FindIndex(chatUsers[cursor].value.users, sweeping)])
    /\ cursor' = cursor + 1
    /\ UNCHANGED <<status, clientName, rooms, joined, fault, lastOp, now, object,
                   jsons, sweeping>>

\* The iterator is exhausted, or the entry's value is undefined: the handler
\* returns.
SweepReturn ==
    /\ sweeping # NoSession
    /\ \/ cursor > Len(chatUsers)
       \/ cursor <= Len(chatUsers) /\ ~chatUsers[cursor].value.defined
    /\ sweeping' = NoSession
    /\ clientName' = [clientName EXCEPT ![sweeping] = NoName]
    /\ UNCHANGED <<status, rooms, chatUsers, joined, fault, out, lastOp, now, object,
                   jsons, cursor, visits>>

SweepNext ==
    \/ \E socket \in Sessions : SweepStart(socket)
    \/ SweepVisit
    \/ SweepReturn

\* The loop is synchronous: once started it keeps running until it returns.
SweepSpec ==
    SweepInit /\ [][SweepNext]_vars /\ WF_vars(SweepVisit) /\ WF_vars(SweepReturn)

\* ------------------------------------------------------- claim vocabulary
Ids(list) == {list[i].userId : i \in 1..Len(list)}
Emitted(o) == {o[i] : i \in 1..Len(o)}
IsRoster(e) == e.ev = "room_users_list"
IsNotice(e, text) == e.ev = "user_list_changed" /\ e.text = text
ToRequesterOnly(o, ev, socket) ==
    /\ Len(o) = 1
    /\ o[1].ev = ev
    /\ o[1].to = {socket}
\* The last event of o whose payload names the room is at index i.
LastFor(o, roomName, i) ==
    /\ i \in 1..Len(o)
    /\ o[i].room = roomName
    /\ \A j \in (i + 1)..Len(o) : o[j].room # roomName

\* ---------------------------------------------------------------------- C1
\* C1: an add_room naming a room already in the directory answers
\* room_already_exist to its requester only and changes neither the directory,
\* nor the membership lists, nor the transport rooms; an add_room naming a room
\* not in the directory adds it and answers room_created to the requester; no
\* step ever removes a room from the directory.  Hence of all add_room events
\* naming one room exactly one, the first, succeeds.
C1_AddRoomOnce ==
    [][/\ rooms \subseteq rooms'
       /\ lastOp'.op = "add_room" =>
            IF lastOp'.room \in rooms
            THEN /\ ToRequesterOnly(out', "room_already_exist", lastOp'.socket)
                 /\ UNCHANGED <<rooms, chatUsers, joined>>
            ELSE /\ rooms' = rooms \cup {lastOp'.room}
                 /\ Len(out') >= 1
                 /\ out'[1].ev = "room_created"
                 /\ out'[1].to = {lastOp'.socket}
                 /\ out'[1].room = lastOp'.room
                 /\ \A i \in 1..Len(out') : out'[i].ev # "room_already_exist"]_vars

\* A second session asked for a room that another session had created.
C1_Witness ==
    /\ lastOp.op = "add_room"
    /\ lastOp.existed
    /\ ToRequesterOnly(out, "room_already_exist", lastOp.socket)
    /\ MemberIds(chatUsers, lastOp.room) # {}
    /\ lastOp.socket \notin MemberIds(chatUsers, lastOp.room)

\* ---------------------------------------------------------------------- C2
\* C2: in every reachable state no session id occurs twice in a room's
\* membership list.
C2_MemberOnce ==
    \A r \in Rooms :
        LET list == MapGet(chatUsers, r).users
        IN  \A i, j \in 1..Len(list) : list[i].userId = list[j].userId => i = j

\* A member sent join_room for its room again, next to another member.
C2_Witness ==
    /\ lastOp.op = "join_room"
    /\ lastOp.room \in lastOp.wasIn
    /\ Cardinality(MemberIds(chatUsers, lastOp.room)) = 2
    /\ Len(MapGet(chatUsers, lastOp.room).users) = 2

\* ---------------------------------------------------------------------- C3
\* C3: once leave_room(R) of S, or the disconnect of S, has been handled, S is
\* not in R's membership list; every roster emitted for a room lists exactly
\* the room's current membership; and a session absent from a stored list gets
\* into it only by its own join_room for that room.
C3_AbsentAfterLeave ==
    [][/\ lastOp'.op = "leave_room" =>
            lastOp'.socket \notin MemberIds(chatUsers', lastOp'.room)
       /\ lastOp'.op = "disconnect" =>
            \A r \in Rooms : lastOp'.socket \notin MemberIds(chatUsers', r)
       /\ \A e \in Emitted(out') :
            IsRoster(e) => /\ e.chatUsers = MapGet(chatUsers', e.room)
                           /\ lastOp'.op \in {"leave_room", "disconnect"} =>
                                lastOp'.socket \notin Ids(e.chatUsers.users)
       /\ \A s \in Sessions, r \in Rooms :
            /\ MapHas(chatUsers, r)
            /\ s \notin MemberIds(chatUsers, r)
            /\ s \in MemberIds(chatUsers', r)
            => /\ lastOp'.op = "join_room"
               /\ lastOp'.socket = s
               /\ lastOp'.room = r]_vars

\* A member left a room that keeps another member, who is sent the roster.
C3_Witness ==
    /\ lastOp.op = "leave_room"
    /\ lastOp.room \in lastOp.wasIn
    /\ \E e \in Emitted(out) :
        /\ IsRoster(e)
        /\ e.room = lastOp.room
        /\ e.to # {}
        /\ e.chatUsers.users # <<>>
        /\ lastOp.socket \notin Ids(e.chatUsers.users)

\* ---------------------------------------------------------------------- C4
\* The last event the operation emitted for the room is the roster carrying the
\* list now stored for the room.
RosterClosesRoom(roomName) ==
    \E i \in 1..Len(out) :
        /\ LastFor(out, roomName, i)
        /\ IsRoster(out[i])
        /\ out[i].chatUsers = MapGet(chatUsers, roomName)

\* C4: after a successful add_room, a successful join_room, an effective
\* leave_room and a disconnect, the membership of each changed room has been
\* changed and the last event emitted for that room is its roster, carrying the
\* member list as it is after the change.
C4_RosterLast ==
    /\ lastOp.op = "add_room" /\ ~lastOp.existed =>
        /\ lastOp.socket \in MemberIds(chatUsers, lastOp.room)
        /\ RosterClosesRoom(lastOp.room)
    /\ lastOp.op = "join_room" /\ lastOp.existed /\ lastOp.room \notin lastOp.wasIn =>
        /\ lastOp.socket \in MemberIds(chatUsers, lastOp.room)
        /\ RosterClosesRoom(lastOp.room)
    /\ lastOp.op = "leave_room" /\ lastOp.room \in lastOp.wasIn =>
        /\ lastOp.socket \notin MemberIds(chatUsers, lastOp.room)
        /\ RosterClosesRoom(lastOp.room)
    /\ lastOp.op = "disconnect" =>
        \A r \in lastOp.wasIn :
            /\ lastOp.socket \notin MemberIds(chatUsers, r)
            /\ RosterClosesRoom(r)

\* A session joined a room that had a member: three events, the roster last, to both.
C4_Witness ==
    /\ lastOp.op = "join_room"
    /\ lastOp.existed
    /\ lastOp.room \notin lastOp.wasIn
    /\ Len(out) = 3
    /\ IsRoster(out[3])
    /\ Cardinality(out[3].to) = 2
    /\ Len(out[3].chatUsers.users) = 2

\* ---------------------------------------------------------------------- C5
\* C5: a leave_room for an existing room by a session that is not a member of
\* it reaches no session with any event and changes neither the directory nor
\* any membership list.
C5_NoopLeaveSilent ==
    [][/\ lastOp'.op = "leave_room"
       /\ lastOp'.room \in rooms
       /\ lastOp'.socket \notin MemberIds(chatUsers, lastOp'.room)
       => /\ \A e \in Emitted(out') : e.to = {}
          /\ UNCHANGED <<rooms, chatUsers>>]_vars

\* ---------------------------------------------------------------------- C6
\* C6: a leave_room naming a room for which no membership list is stored
\* completes without a fault.
C6_LeaveUnknownRoomHarmless ==
    lastOp.op = "leave_room" /\ ~lastOp.stored => ~fault

\* ---------------------------------------------------------------------- C7
\* C7: after a disconnect, for every room the session was a member of, the
\* session is out of the room's list, and the remaining sockets of the room were
\* sent a "has disconnected" notice directly followed by the room's roster,
\* which does not list the session.
C7_DisconnectSweepsAll ==
    lastOp.op = "disconnect" =>
        \A r \in lastOp.wasIn :
            /\ lastOp.socket \notin MemberIds(chatUsers, r)
            /\ \E i \in 1..(Len(out) - 1) :
                /\ IsNotice(out[i], "has disconnected")
                /\ out[i].room = r
                /\ out[i].to = IoTo(joined, r)
                /\ IsRoster(out[i + 1])
                /\ out[i + 1].room = r
                /\ out[i + 1].to = IoTo(joined, r)
                /\ lastOp.socket \notin Ids(out[i + 1].chatUsers.users)

\* A member of both rooms disconnected; another session stays in both.
C7_Witness ==
    /\ lastOp.op = "disconnect"
    /\ lastOp.wasIn = Rooms
    /\ \A r \in Rooms : MemberIds(chatUsers, r) # {}
    /\ Len(out) = 4

\* ---------------------------------------------------------------------- C8
\* C8: on a disconnect no session is sent an event for a room the
\* disconnecting session was not a member of.
C8_DisconnectOnlyOwnRooms ==
    lastOp.op = "disconnect" =>
        \A e \in Emitted(out) : e.to # {} => e.room \in lastOp.wasIn

\* ---------------------------------------------------------------------- C9
\* C9: a join_room naming a room that is not in the directory emits
\* room_not_exit to the requester only and changes neither the directory, nor
\* any membership list, nor the transport rooms.
C9_JoinMissingRoom ==
    [][lastOp'.op = "join_room" /\ lastOp'.room \notin rooms
       => /\ ToRequesterOnly(out', "room_not_exit", lastOp'.socket)
          /\ UNCHANGED <<rooms, chatUsers, joined>>]_vars

\* A join_room for a room nobody created, while another room exists.
C9_Witness ==
    /\ lastOp.op = "join_room"
    /\ ~lastOp.existed
    /\ lastOp.room \notin rooms
    /\ rooms # {}
    /\ ToRequesterOnly(out, "room_not_exit", lastOp.socket)

\* --------------------------------------------------------------------- C10
\* C10: a join_room by a session already in the room's membership list emits
\* already_joined to the requester only, nothing else, and changes no state.
C10_JoinTwice ==
    [][lastOp'.op = "join_room" /\ lastOp'.socket \in MemberIds(chatUsers, lastOp'.room)
       => /\ ToRequesterOnly(out', "already_joined", lastOp'.socket)
          /\ UNCHANGED <<rooms, chatUsers, joined, status, clientName, fault>>]_vars

\* The creator of a room sent join_room for it.
C10_Witness ==
    /\ lastOp.op = "join_room"
    /\ lastOp.room \in lastOp.wasIn
    /\ lastOp.existed
    /\ ToRequesterOnly(out, "already_joined", lastOp.socket)
    /\ Len(MapGet(chatUsers, lastOp.room).users) = 1

\* --------------------------------------------------------------------- C11
\* C11: after a successful join_room the joining session is the last entry of
\* the room's list, and exactly three events were emitted, in this order:
\* room_joined to the session alone, the "has joined" notice to the members of
\* the room but the session, the roster of the room to all its members.
C11_JoinEmits ==
    lastOp.op = "join_room" /\ lastOp.existed /\ lastOp.room \notin lastOp.wasIn =>
        LET list == MapGet(chatUsers, lastOp.room).users
        IN  /\ Len(list) >= 1
            /\ list[Len(list)] =
                 [userName |-> clientName[lastOp.socket], userId |-> lastOp.socket]
            /\ Len(out) = 3
            /\ out[1].ev = "room_joined"
            /\ out[1].to = {lastOp.socket}
            /\ out[1].room = lastOp.room
            /\ IsNotice(out[2], "has joined chat room")
            /\ out[2].who = clientName[lastOp.socket]
            /\ out[2].room = lastOp.room
            /\ out[2].to = Ids(list) \ {lastOp.socket}
            /\ IsRoster(out[3])
            /\ out[3].room = lastOp.room
            /\ out[3].to = Ids(list)
            /\ out[3].chatUsers = Arr(list)

\* A session joined a room in which another session is told so.
C11_Witness ==
    /\ lastOp.op = "join_room"
    /\ lastOp.existed
    /\ lastOp.room \notin lastOp.wasIn
    /\ Len(out) = 3
    /\ out[2].to # {}
    /\ lastOp.socket \notin out[2].to

\* --------------------------------------------------------------------- C12
\* C12: after a successful add_room the room is in the directory, its list is
\* the creator alone, and exactly two events were emitted, both to the creator
\* alone: room_created, then the roster holding the creator alone.
C12_AddRoomEmits ==
    lastOp.op = "add_room" /\ ~lastOp.existed =>
        /\ lastOp.room \in rooms
        /\ MapGet(chatUsers, lastOp.room) =
             Arr(<<[userName |-> clientName[lastOp.socket], userId |-> lastOp.socket]>>)
        /\ Len(out) = 2
        /\ out[1].ev = "room_created"
        /\ out[1].room = lastOp.room
        /\ IsRoster(out[2])
        /\ out[2].room = lastOp.room
        /\ out[2].chatUsers = MapGet(chatUsers, lastOp.room)
        /\ \A e \in Emitted(out) : e.to = {lastOp.socket} /\ e.ev # "user_list_changed"

\* A room was created while another connected session sits in the other room.
C12_Witness ==
    /\ lastOp.op = "add_room"
    /\ ~lastOp.existed
    /\ Len(out) = 2
    /\ \E t \in Sessions \ {lastOp.socket} : status[t] = "connected" /\ joined[t] # {}

\* --------------------------------------------------------------------- C13
\* C13: after an effective leave_room exactly two events were emitted: the
\* "has left" notice and then the roster of the room without the leaver, both
\* to the remaining members of the room and so not to the leaver.
C13_LeaveEmits ==
    lastOp.op = "leave_room" /\ lastOp.room \in lastOp.wasIn =>
        LET remaining == MemberIds(chatUsers, lastOp.room)
        IN  /\ lastOp.socket \notin remaining
            /\ Len(out) = 2
            /\ IsNotice(out[1], "has left chat")
            /\ out[1].who = clientName[lastOp.socket]
            /\ out[1].room = lastOp.room
            /\ out[1].to = remaining
            /\ IsRoster(out[2])
            /\ out[2].room = lastOp.room
            /\ out[2].to = remaining
            /\ out[2].chatUsers = MapGet(chatUsers, lastOp.room)
            /\ lastOp.socket \notin Ids(out[2].chatUsers.users)

\* A member left a room and the member who stays is told so.
C13_Witness ==
    /\ lastOp.op = "leave_room"
    /\ lastOp.room \in lastOp.wasIn
    /\ Len(out) = 2
    /\ IsNotice(out[1], "has left chat")
    /\ out[1].to # {}
    /\ out[1].to = out[2].to

\* --------------------------------------------------------------------- C14
\* C14: no step removes a room from the directory, whatever its membership;
\* an add_room naming a room of the directory answers room_already_exist, and
\* a join_room naming a room of the directory by a session not in it succeeds.
C14_RoomsStay ==
    [][/\ rooms \subseteq rooms'
       /\ lastOp'.op = "add_room" /\ lastOp'.room \in rooms =>
            ToRequesterOnly(out', "room_already_exist", lastOp'.socket)
       /\ /\ lastOp'.op = "join_room"
          /\ lastOp'.room \in rooms
          /\ lastOp'.socket \notin MemberIds(chatUsers, lastOp'.room)
          => /\ Len(out') >= 1
             /\ out'[1].ev = "room_joined"
             /\ lastOp'.socket \in MemberIds(chatUsers', lastOp'.room)]_vars

\* A session joined a room that had no member left, and is now its only member.
C14_Witness ==
    /\ lastOp.op = "join_room"
    /\ lastOp.existed
    /\ lastOp.room \notin lastOp.wasIn
    /\ MemberIds(chatUsers, lastOp.room) = {lastOp.socket}
    /\ Len(out) = 3
    /\ out[1].ev = "room_joined"

C16_MessageNeedsNoMembership ==
    [][lastOp'.op = "new_message" =>
        /\ UNCHANGED <<rooms, chatUsers, joined>>
        /\ ~fault'
        /\ Len(out') = 1
        /\ out'[1].ev = "new_message_in_room"
        /\ out'[1].to = MemberIds(chatUsers, lastOp'.room)
        /\ (lastOp'.room \notin rooms => out'[1].to = {})]_vars

\* A session that is in no room wrote to a room another session is in.
C16_Witness ==
    /\ lastOp.op = "new_message"
    /\ lastOp.wasIn = {}
    /\ Len(out) = 1
    /\ out[1].to # {}
    /\ lastOp.socket \notin out[1].to
    /\ \E r \in Rooms : r \notin rooms

\* --------------------------------------------------------------------- C17
\* C17: after every handled event, the rooms a socket has joined at the
\* transport are exactly the rooms whose membership list holds the socket.
C17_TransportMatchesMembership ==
    \A s \in Sessions :
        joined[s] = {r \in Rooms : s \in MemberIds(chatUsers, r)}

\* A member of both rooms left one of them and is still in the other.
C17_Witness ==
    /\ lastOp.op = "leave_room"
    /\ lastOp.wasIn = Rooms
    /\ joined[lastOp.socket] = Rooms \ {lastOp.room}
    /\ \E t \in Sessions \ {lastOp.socket} : joined[t] = Rooms

\* --------------------------------------------------------------------- C18
IsEnvelope(e) == e.ev \in {"user_list_changed", "new_message_in_room"}

\* C18: every emitted message envelope carries an identifier, and no two
\* envelopes emitted by one handler carry the same identifier.
C18_EnvelopeIds ==
    /\ \A e \in Emitted(out) : IsEnvelope(e) /\ e.to # {} => e.id # NoId
    /\ \A i, j \in 1..Len(out) :
        /\ IsEnvelope(out[i]) /\ out[i].to # {}
        /\ IsEnvelope(out[j]) /\ out[j].to # {}
        /\ i # j
        => out[i].id # out[j].id

\* --------------------------------------------------------------------- C19
\* C19: every toJson() of a constructed message yields the id, the timestamp,
\* the text, the room and the system flag the constructor stored, so all
\* serialisations of one object agree, however far the clock has moved on.
C19_ToJsonStable ==
    \A i \in 1..Len(jsons) :
        /\ jsons[i] = jsons[1]
        /\ jsons[i].messageId = (IF object.class = "Message" THEN NoId ELSE object.id)
        /\ jsons[i].messageTime = object.timestamp
        /\ jsons[i].messageText = object.text
        /\ jsons[i].messageRoomName = object.roomName
        /\ jsons[i].messageIsSystem = object.isSystem

\* A user message with an id was serialised twice, the second time after the
\* clock had moved on from its timestamp.
C19_Witness ==
    /\ object.class = "IdUserMessage"
    /\ object.id # NoId
    /\ Len(jsons) >= 2
    /\ now > object.timestamp
    /\ jsons[2].messageId = object.id

\* --------------------------------------------------------------------- C20
\* Two sessions joined the same existing room one right after the other, each
\* not having been in it.
TwoJoinsInARow ==
    /\ lastOp.op = "join_room"
    /\ lastOp.afterJoinOf # NoSession
    /\ lastOp.existed
    /\ lastOp.room \notin lastOp.wasIn
    /\ ~fault

\* C20: after two sessions join the same room one right after the other, the
\* room's stored list holds both of them, each exactly once.
C20_BothJoinersStored ==
    TwoJoinsInARow =>
        /\ MapHas(chatUsers, lastOp.room)
        /\ \A socket \in {lastOp.socket, lastOp.afterJoinOf} :
             Cardinality({i \in 1..Len(MapGet(chatUsers, lastOp.room).users) :
                 MapGet(chatUsers, lastOp.room).users[i].userId = socket}) = 1

\* The second of two joins in a row has been handled and the room's list
\* holds two entries.
C20_Witness ==
    /\ TwoJoinsInARow
    /\ lastOp.socket # lastOp.afterJoinOf
    /\ Len(MapGet(chatUsers, lastOp.room).users) = 2

\* --------------------------------------------------------------------- C21
\* The list stored for a room (empty when nothing is stored), and a list
\* without the entries of one session, the others in their order.
ListOf(m, roomName) == MapGet(m, roomName).users
Without(list, id) == SelectSeq(list, LAMBDA entry : entry.userId # id)

SweptOnce(socket) ==
    /\ sweeping = NoSession
    /\ lastOp.op = "disconnect"
    /\ lastOp.socket = socket
    /\ cursor = Len(chatUsers) + 1
    /\ [i \in 1..Len(visits) |-> visits[i].room]
         = [i \in 1..Len(chatUsers) |-> chatUsers[i].key]

\* C22: a started disconnect loop always returns, having visited each stored
\* room exactly once, although it sets entries of the Map it iterates.
C22_SweepTerminates ==
    \A socket \in Sessions : (sweeping = socket) ~> SweptOnce(socket)

\* A loop over two rooms has returned after rewriting the lists of both.
C22_Witness ==
    /\ \E socket \in Sessions : SweptOnce(socket)
    /\ Len(visits) = 2
    /\ \A i \in 1..Len(visits) : visits[i].userIndex # 0

\* --------------------------------------------------------------------- C23
\* C23: the rooms with a stored list are the rooms of the directory, and
\* every stored value is a list (possibly empty), never undefined; so the
\* disconnect loop never returns early.
C23_StoredIsDirectory ==
    /\ {chatUsers[i].key : i \in 1..Len(chatUsers)} = rooms
    /\ \A i \in 1..Len(chatUsers) : chatUsers[i].value.defined

\* A disconnect ran over both rooms, one of them left with an empty list, and
\* emitted for each of them.
C23_Witness ==
    /\ lastOp.op = "disconnect"
    /\ rooms = Rooms
    /\ \E r \in Rooms : MapHas(chatUsers, r) /\ ListOf(chatUsers, r) = <<>>
    /\ Len(out) = 2 * Cardinality(Rooms)

\* --------------------------------------------------------------------- C24
\* The entries of one session in a room's list.
EntriesOf(m, roomName, id) ==
    SelectSeq(ListOf(m, roomName), LAMBDA entry : entry.userId = id)

\* C24: an event of a session leaves the entries of every other session as
\* they were, in every room, also where sessions share a display name; and
\* add_room, join_room and leave_room leave the list of every room but the
\* named one as it was.
C24_OnlyOwnEntries ==
    [][/\ \A r \in Rooms : \A t \in Sessions :
            t # lastOp'.socket =>
                EntriesOf(chatUsers', r, t) = EntriesOf(chatUsers, r, t)
       /\ lastOp'.op \in {"add_room", "join_room", "leave_room"} =>
            \A r \in Rooms :
                r # lastOp'.room => MapGet(chatUsers', r) = MapGet(chatUsers, r)]_vars

\* A member left a room in which a session of the same display name stays, and
\* was in another room too; it is out of the one list and still in the other.
C24_Witness ==
    /\ lastOp.op = "leave_room"
    /\ lastOp.room \in lastOp.wasIn
    /\ lastOp.wasIn = Rooms
    /\ EntriesOf(chatUsers, lastOp.room, lastOp.socket) = <<>>
    /\ \E t \in Sessions :
        /\ t # lastOp.socket
        /\ clientName[t] = clientName[lastOp.socket]
        /\ Len(EntriesOf(chatUsers, lastOp.room, t)) = 1
    /\ \A r \in Rooms \ {lastOp.room} :
        Len(EntriesOf(chatUsers, r, lastOp.socket)) = 1

\* --------------------------------------------------------------------- C25
\* C25: when the disconnect loop visits a room whose list is the session's one
\* entry, the list it stores ([]) and the roster it emits are those the general
\* removal (find the index, splice, set) gives.
C25_SingleEntryAsGeneral ==
    [][(/\ sweeping # NoSession
        /\ cursor' = cursor + 1
        /\ Len(chatUsers[cursor].value.users) = 1
        /\ FindIndex(chatUsers[cursor].value.users, sweeping) # 0)
       => LET roomName == chatUsers[cursor].key
              general == removeUserFromServerStorage(roomName, sweeping)
          IN  /\ ~general.threw
              /\ chatUsers' = general.chatUsers
              /\ out'[Len(out')] = Roster(IoTo(joined, roomName), general.chatUsers,
                                          roomName)]_vars

\* The loop has just visited a room that held only the session's entry, and
\* the room's list is empty now.
C25_Witness ==
    /\ Len(visits) > 0
    /\ visits[Len(visits)].length = 1
    /\ visits[Len(visits)].userIndex = 1
    /\ ListOf(chatUsers, visits[Len(visits)].room) = <<>>
    /\ IsRoster(out[Len(out)])
    /\ out[Len(out)].chatUsers = Arr(<<>>)

====
